---- MODULE Spec2Model ----
(***************************************************************************)
(* Model of api/service/elk.py: the CRUD facade over an Elasticsearch      *)
(* cluster.  Index names are sequences of one-character strings.  The      *)
(* engine (_es) is a function from the names of its indices to the set of  *)
(* document ids each one holds.  Every operation of the module is one      *)
(* action; it records the request, the engine calls it issued (in order),  *)
(* the engine's search response and the value it returned.                 *)
(***************************************************************************)
EXTENDS Integers, Sequences, FiniteSets, TLC

\* ------------------------------------------------------------------------
\* Bounds of the model
\* ------------------------------------------------------------------------
MaxNameLen == 2

\* ------------------------------------------------------------------------
\* Configuration (api.utils.const), scaled to the model
\* ------------------------------------------------------------------------
RECORDS == 2
MAX_IDX_LIM == 2
REQUEST_TIMEOUT == 30
SPECIAL_CHARS == {"#"}
INDEX_NAME_PREFIX == <<"t">>

\* Status codes (api.utils.status and the literals of elk.py)
HTTP_200_OK == 200
HTTP_208_ALREADY_REPORTED == 208
HTTP_400_BAD_REQUEST == 400
HTTP_404_NOT_FOUND == 404
HTTP_405_METHOD_NOT_ALLOWED == 405
HTTP_406_NOT_ACCEPTABLE == 406
HTTP_408_REQUEST_TIMEOUT == 408

\* ------------------------------------------------------------------------
\* Input domains
\* ------------------------------------------------------------------------
Chars == {"t", "a", "#"}
Names == UNION {[1..k -> Chars] : k \in 0..MaxNameLen}
DocIds == {"d1"}
Fields == {"f", "g"}
FieldValue(k) == IF k = "f" THEN "x" ELSE "y"
\* _source bodies of the hits: a document holds a subset of the fields
Docs == {[k \in {fld} |-> FieldValue(k)] : fld \in Fields}
None == "None"

\* the hit lists the engine can answer with when at most `limit` are asked
Hits == {[_source |-> d] : d \in Docs}
HitLists(limit) == UNION {[1..k -> Hits] : k \in 0..limit}

\* the cluster of the model holds no more indices than this: a bulk write to
\* an absent index has the engine create it only while there is room
EngineCap == MAX_IDX_LIM

\* ------------------------------------------------------------------------
\* String helpers
\* ------------------------------------------------------------------------
\* python: char in _index
Contains(s, c) == \E i \in 1..Len(s) : s[i] = c

\* python: s.startswith(p)
StartsWith(s, p) == Len(s) >= Len(p) /\ SubSeq(s, 1, Len(p)) = p

\* mutant of Allowed: only the first character of the name is looked at
AllowedFirstChar(_index) == Len(_index) = 0 \/ _index[1] \notin SPECIAL_CHARS

\* the `allowed` flag every operation computes over SPECIAL_CHARS
Allowed(_index) == \A char \in SPECIAL_CHARS : ~Contains(_index, char)

\* mutant of Normalize: the prefix is put in front of every name
NormalizeAlways(_index) == INDEX_NAME_PREFIX \o _index

\* prefixing of the index name when the prefix is missing
Normalize(_index) ==
    IF ~StartsWith(_index, INDEX_NAME_PREFIX)
    THEN INDEX_NAME_PREFIX \o _index
    ELSE _index

\* ------------------------------------------------------------------------
\* State
\* ------------------------------------------------------------------------
VARIABLES
    es,      \* the engine: index name -> set of document ids
    req,     \* the last request: [op, index, field]
    calls,   \* engine calls issued by the last request, in order
    res,     \* hits of the engine's answer to the last search call
    result   \* what the last request returned (or raised)

vars == <<es, req, calls, res, result>>

Indices(e) == DOMAIN e

\* mutant of Exists: the bound method is tested instead of its answer
ExistsAlways(e, index) == TRUE

\* _es.indices.exists(index=_index)
Exists(e, index) == index \in Indices(e)

\* mutant of no_of_tdp_idx: the pattern lacks its '*', only the index named
\* by the bare prefix is counted
no_of_tdp_idx_exact(e) ==
    Cardinality({i \in Indices(e) : i = INDEX_NAME_PREFIX})

\* len(_es.cat.indices(index=INDEX_NAME_PREFIX + '*').split())
no_of_tdp_idx(e) ==
    Cardinality({i \in Indices(e) : StartsWith(i, INDEX_NAME_PREFIX)})

\* mutant of LimitReached: > for >=
LimitReachedStrict(e) == no_of_tdp_idx(e) > MAX_IDX_LIM

\* condition-1 of create_a_single_index
LimitReached(e) == no_of_tdp_idx(e) >= MAX_IDX_LIM

\* an engine call: the API, the index it addresses, its keyword arguments,
\* what the engine did with it ("ok", "error": it raised an exception,
\* "timeout": it raised ConnectionTimeout), and whether the index existed in
\* the engine when the call was issued
Call(e, api, index, args, out) ==
    [api |-> api, index |-> index, args |-> args, out |-> out,
     present |-> index \in Indices(e)]

CatCall(e) == Call(e, "cat.indices", INDEX_NAME_PREFIX \o <<"*">>, [h |-> "index"], "ok")
ExistsCall(e, index) == Call(e, "indices.exists", index, [a |-> 0], "ok")

Envelope(message, status) ==
    [kind |-> "envelope", message |-> message, status |-> status]
Data(kind, data) == [kind |-> kind, data |-> data]
Raised(exc) == [kind |-> "raised", exc |-> exc]
NoResult == [kind |-> "none"]

Request(op, index, field) == [op |-> op, index |-> index, field |-> field]
NoRequest == Request("none", <<>>, "")

\* engine effects of indices.create, indices.delete and of writing documents
EsCreate(e, index) ==
    [i \in Indices(e) \cup {index} |-> IF i \in Indices(e) THEN e[i] ELSE {}]
EsDelete(e, index) == [i \in Indices(e) \ {index} |-> e[i]]
EsIndex(e, index, ids) ==
    [i \in Indices(e) \cup {index} |->
        IF i = index THEN (IF i \in Indices(e) THEN e[i] ELSE {}) \cup ids ELSE e[i]]

\* the layer is stateless and synchronous: a call starts only when no other
\* call is in progress
Idle == req.op = "none"

Init ==
    /\ es = <<>>
    /\ req = NoRequest
    /\ calls = <<>>
    /\ res = <<>>
    /\ result = NoResult

\* ------------------------------------------------------------------------
\* Envelopes
\* ------------------------------------------------------------------------
LimitEnvelope ==
    Envelope("Maximum limit of indices has already been reached", HTTP_406_NOT_ACCEPTABLE)
SpecialCharsEnvelope ==
    Envelope("IndexName must not contain any special chars", HTTP_405_METHOD_NOT_ALLOWED)
CreatedEnvelope == Envelope("Successfully created index", HTTP_200_OK)
\* mutant of CreateFailedEnvelope: the failure reported as a server error
CreateFailedEnvelope500 == Envelope("Failed to create index", 500)
CreateFailedEnvelope == Envelope("Failed to create index", HTTP_404_NOT_FOUND)
AlreadyExistsEnvelope ==
    Envelope("Not created, index already exists", HTTP_208_ALREADY_REPORTED)
\* mutant of TimeoutEnvelope: the timeout reported as the generic failure
TimeoutEnvelopeGeneric == Envelope("Request timed out", HTTP_404_NOT_FOUND)
TimeoutEnvelope == Envelope("Request timed out", HTTP_408_REQUEST_TIMEOUT)
IndexMissingEnvelope == Envelope("Index doesn't exist", HTTP_404_NOT_FOUND)

\* settings of the indices.create call
CreateSettings == [number_of_shards |-> "1", number_of_replicas |-> 0]

\* mutant of CreateIndex: condition-4, the existence check, is left out
CreateIndexNoExistsCheck(e, _index, out) ==
    LET index == Normalize(_index)
        create == Call(e, "indices.create", index, CreateSettings, out)
    IN  IF LimitReached(e)
        THEN [es |-> e, calls |-> <<CatCall(e)>>, result |-> LimitEnvelope]
        ELSE IF ~Allowed(_index)
        THEN [es |-> e, calls |-> <<CatCall(e)>>, result |-> SpecialCharsEnvelope]
        ELSE IF out = "ok"
        THEN [es |-> EsCreate(e, index), calls |-> <<CatCall(e), create>>,
              result |-> CreatedEnvelope]
        ELSE [es |-> e, calls |-> <<CatCall(e), create>>,
              result |-> CreateFailedEnvelope]

\* ------------------------------------------------------------------------
\* create_a_single_index, as a function of the engine state: the engine
\* afterwards, the calls issued and the value returned.  `out` is what the
\* engine does with indices.create.
\* ------------------------------------------------------------------------
CreateIndex(e, _index, out) ==
    LET index == Normalize(_index)
        create == Call(e, "indices.create", index, CreateSettings, out)
    IN  IF LimitReached(e)
        THEN [es |-> e, calls |-> <<CatCall(e)>>, result |-> LimitEnvelope]
        ELSE IF ~Allowed(_index)
        THEN [es |-> e, calls |-> <<CatCall(e)>>, result |-> SpecialCharsEnvelope]
        ELSE IF ~Exists(e, index)
        THEN IF out = "ok"
             THEN [es |-> EsCreate(e, index),
                   calls |-> <<CatCall(e), ExistsCall(e, index), create>>,
                   result |-> CreatedEnvelope]
             ELSE [es |-> e,
                   calls |-> <<CatCall(e), ExistsCall(e, index), create>>,
                   result |-> CreateFailedEnvelope]
        ELSE [es |-> e, calls |-> <<CatCall(e), ExistsCall(e, index)>>,
              result |-> AlreadyExistsEnvelope]

create_a_single_index ==
    \E _index \in Names, out \in {"ok", "error"} :
        LET r == CreateIndex(es, _index, out)
        IN  /\ Idle
            /\ es' = r.es
            /\ req' = Request("create", _index, "")
            /\ calls' = r.calls
            /\ res' = <<>>
            /\ result' = r.result

\* ------------------------------------------------------------------------
\* delete_a_single_index
\* ------------------------------------------------------------------------
delete_a_single_index ==
    \E _index \in Names, out \in {"ok", "error"} :
        LET index == Normalize(_index)
            delete == Call(es, "indices.delete", index, [a |-> 0], out)
        IN  /\ Idle
            /\ req' = Request("delete", _index, "")
            /\ res' = <<>>
            /\ IF ~Allowed(_index)
               THEN /\ es' = es
                    /\ calls' = <<>>
                    /\ result' = Envelope("IndexName must not contain any special chars", 405)
               ELSE IF Exists(es, index)
               THEN /\ calls' = <<ExistsCall(es, index), delete>>
                    /\ IF out = "ok"
                       THEN /\ es' = EsDelete(es, index)
                            /\ result' = Envelope("Successfully deleted index", 200)
                       ELSE /\ es' = es
                            /\ result' = Envelope("Failed to delete index", 404)
               ELSE /\ es' = es
                    /\ calls' = <<ExistsCall(es, index)>>
                    /\ result' = Envelope("Index does not exist, nothing to delete",
                                          HTTP_400_BAD_REQUEST)

\* ------------------------------------------------------------------------
\* insert_a_single_doc
\* ------------------------------------------------------------------------
insert_a_single_doc ==
    \E _index \in Names, _doc_id \in DocIds, out \in {"ok", "error"} :
        LET index == Normalize(_index)
            write == Call(es, "index", index, [id |-> _doc_id, timeout |-> "30s"], out)
        IN  /\ Idle
            /\ req' = Request("insert", _index, "")
            /\ res' = <<>>
            /\ IF ~Allowed(_index)
               THEN /\ es' = es
                    /\ calls' = <<>>
                    /\ result' = Envelope("IndexName must not contain any special chars", 405)
               ELSE IF Exists(es, index)
               THEN /\ calls' = <<ExistsCall(es, index), write>>
                    /\ IF out = "ok"
                       THEN /\ es' = EsIndex(es, index, {_doc_id})
                            /\ result' = Envelope("Record successfully loaded into index", 200)
                       ELSE /\ es' = es
                            /\ result' = Envelope("Failed to load record into index", 404)
               ELSE /\ es' = es
                    /\ calls' = <<ExistsCall(es, index)>>
                    /\ result' = Envelope("index doesn't exist, create this index to insert records",
                                          HTTP_400_BAD_REQUEST)

\* ------------------------------------------------------------------------
\* insert_multiple_docs_from_csv.  `cout` is what the engine does with the
\* indices.create of the nested create_a_single_index, `fileOk` whether
\* open(_filename) succeeds, `rows` the documents of the file and `out` what
\* the engine does with the bulk write (a bulk write to an absent index that
\* succeeds has the engine create the index).
\* ------------------------------------------------------------------------
insert_multiple_docs_from_csv ==
    \E _index \in Names, cout \in {"ok", "error"}, fileOk \in BOOLEAN,
       rows \in SUBSET DocIds, out \in {"ok", "error"} :
        LET index == Normalize(_index)
            created == IF ~Exists(es, index)
                       THEN CreateIndex(es, index, cout)
                       ELSE [es |-> es, calls |-> <<>>, result |-> NoResult]
            bulk == Call(created.es, "bulk", index, [a |-> 0], out)
        IN  /\ Idle
            /\ req' = Request("bulk", _index, "")
            /\ res' = <<>>
            /\ IF ~Allowed(_index)
               THEN /\ es' = es
                    /\ calls' = <<>>
                    /\ result' = Envelope("IndexName must not contain any special chars", 405)
               ELSE IF ~fileOk
               THEN /\ es' = created.es
                    /\ calls' = <<ExistsCall(es, index)>> \o created.calls
                    /\ result' = Raised("FileNotFoundError")
               ELSE /\ calls' = <<ExistsCall(es, index)>> \o created.calls \o <<bulk>>
                    /\ IF out = "ok"
                       THEN /\ \/ index \in Indices(created.es)
                               \/ Cardinality(Indices(created.es)) < EngineCap
                            /\ es' = EsIndex(created.es, index, rows)
                            /\ result' = Envelope("Records successfully loaded into index", 200)
                       ELSE /\ es' = created.es
                            /\ result' = Envelope("Failed to load records into index", 404)

\* ------------------------------------------------------------------------
\* The seven searches.  Search is the body they share: the name check, the
\* prefixing, the existence check, the one _es.search call with `args`, and
\* the shaping of the answer.  `out` is what the engine does with the search
\* call and `hits` the hit list it answers with.
\* ------------------------------------------------------------------------
\* keyword arguments of the _es.search calls
SearchByIdArgs == [query |-> "match _id", request_timeout |-> REQUEST_TIMEOUT]
\* mutant of SearchArgs: the page size is not passed
SearchArgsNoSize(query) == [query |-> query, request_timeout |-> REQUEST_TIMEOUT]

SearchArgs(query) ==
    [query |-> query, size |-> RECORDS, request_timeout |-> REQUEST_TIMEOUT]

\* python: arr["_source"].get(_field)
Get(doc, _field) == IF _field \in DOMAIN doc THEN doc[_field] ELSE None

\* record_list.append(arr["_source"]) over the hits
RecordList(hits) == [i \in 1..Len(hits) |-> hits[i]._source]

\* mutant of FieldList: a hit without the field is skipped
FieldListSkipMissing(hits, _field) ==
    LET with == SelectSeq(hits, LAMBDA h : _field \in DOMAIN h._source)
    IN  [i \in 1..Len(with) |-> with[i]._source[_field]]

\* field_list.append(arr["_source"].get(_field)) over the hits
FieldList(hits, _field) == [i \in 1..Len(hits) |-> Get(hits[i]._source, _field)]

\* the value a search returns for a non-empty hit list
Shape(shape, hits, _field) ==
    IF shape = "first" THEN Data("record", hits[1]._source)
    ELSE IF shape = "field" THEN Data("list", FieldList(hits, _field))
    ELSE Data("list", RecordList(hits))

\* what the engine can do with a search call: raise ConnectionTimeout, raise
\* another exception, or answer with a hit list of at most `size` hits when a
\* size is passed and at most the one document of that id otherwise
Answers(args) ==
    {[out |-> "timeout", hits |-> <<>>], [out |-> "error", hits |-> <<>>]}
    \cup {[out |-> "ok", hits |-> h] :
            h \in HitLists(IF "size" \in DOMAIN args THEN args.size ELSE 1)}

Search(op, shape, _index, _field, args, nohits) ==
    LET index == Normalize(_index)
    IN  /\ Idle
        /\ req' = Request(op, _index, _field)
        /\ es' = es
        /\ IF ~Allowed(_index)
           THEN /\ calls' = <<>>
                /\ res' = <<>>
                /\ result' = SpecialCharsEnvelope
           ELSE IF Exists(es, index)
           THEN \E ans \in Answers(args) :
                /\ calls' = <<ExistsCall(es, index), Call(es, "search", index, args, ans.out)>>
                /\ IF ans.out = "timeout"
                     THEN /\ res' = <<>>
                          /\ result' = TimeoutEnvelope
                     ELSE IF ans.out = "error"
                     THEN /\ res' = <<>>
                          /\ result' = Raised("Exception")
                     ELSE /\ res' = ans.hits
                          /\ IF ans.hits = <<>>
                             THEN result' = Envelope(nohits, HTTP_404_NOT_FOUND)
                             ELSE result' = Shape(shape, ans.hits, _field)
           ELSE /\ calls' = <<ExistsCall(es, index)>>
                /\ res' = <<>>
                /\ result' = IndexMissingEnvelope

search_record_from_index_by_given_id ==
    \E _index \in Names :
        Search("search_by_id", "first", _index, "", SearchByIdArgs,
               "No record with id exists in index")

search_records_from_index_by_given_key_and_value ==
    \E _index \in Names :
        Search("search_records_by_key_value", "records", _index, "", SearchArgs("match"),
               "No record with key and value exists in index")

search_field_from_index_by_given_key_and_value ==
    \E _index \in Names, _field \in Fields :
        Search("search_field_by_key_value", "field", _index, _field, SearchArgs("match"),
               "No record with key and value exists in index")

search_records_from_index_by_time_range ==
    \E _index \in Names :
        Search("search_records_by_time_range", "records", _index, "", SearchArgs("range"),
               "No record in given time-range exists in index")

search_field_from_index_by_time_range ==
    \E _index \in Names, _field \in Fields :
        Search("search_field_by_time_range", "field", _index, _field, SearchArgs("range"),
               "No record in given time-range exists in index")

search_all_occurances_of_keyword_in_index ==
    \E _index \in Names :
        Search("search_keyword", "records", _index, "", SearchArgs("query_string"),
               "No record in given time-range exists in index")

search_all_occurances_of_text_in_index ==
    \E _index \in Names :
        Search("search_text", "records", _index, "", SearchArgs("query_string *text*"),
               "No record in given time-range exists in index")

\* the call returns to its caller: nothing of it outlives it
Return ==
    /\ ~Idle
    /\ req' = NoRequest
    /\ calls' = <<>>
    /\ res' = <<>>
    /\ result' = NoResult
    /\ UNCHANGED es

Next ==
    \/ create_a_single_index
    \/ delete_a_single_index
    \/ insert_a_single_doc
    \/ insert_multiple_docs_from_csv
    \/ search_record_from_index_by_given_id
    \/ search_records_from_index_by_given_key_and_value
    \/ search_field_from_index_by_given_key_and_value
    \/ search_records_from_index_by_time_range
    \/ search_field_from_index_by_time_range
    \/ search_all_occurances_of_keyword_in_index
    \/ search_all_occurances_of_text_in_index
    \/ Return

Spec == Init /\ [][Next]_vars

\* ------------------------------------------------------------------------
\* Sequences of create, delete, single insert and search only, started from
\* any cluster that holds at most MAX_IDX_LIM prefixed indices
\* ------------------------------------------------------------------------
\* the names the indices of such a cluster bear
IndexNames == {Normalize(n) : n \in {m \in Names : Allowed(m)}}

InitCapacity ==
    /\ es \in UNION {[S -> {{}}] :
                       S \in {T \in SUBSET IndexNames : Cardinality(T) <= MAX_IDX_LIM}}
    /\ req = NoRequest
    /\ calls = <<>>
    /\ res = <<>>
    /\ result = NoResult

NextNoBulk ==
    \/ create_a_single_index
    \/ delete_a_single_index
    \/ insert_a_single_doc
    \/ search_record_from_index_by_given_id
    \/ search_records_from_index_by_given_key_and_value
    \/ search_field_from_index_by_given_key_and_value
    \/ search_records_from_index_by_time_range
    \/ search_field_from_index_by_time_range
    \/ search_all_occurances_of_keyword_in_index
    \/ search_all_occurances_of_text_in_index
    \/ Return

SpecNoBulk == InitCapacity /\ [][NextNoBulk]_vars

\* ------------------------------------------------------------------------
\* Vocabulary of the properties
\* ------------------------------------------------------------------------
SearchOps ==
    {"search_by_id", "search_records_by_key_value", "search_field_by_key_value",
     "search_records_by_time_range", "search_field_by_time_range",
     "search_keyword", "search_text"}
FieldSearchOps == {"search_field_by_key_value", "search_field_by_time_range"}
ListSearchOps == SearchOps \ {"search_by_id"}
Ops == {"create", "delete", "insert", "bulk"} \cup SearchOps

\* a name free of the characters of SPECIAL_CHARS
ValidName(n) == \A i \in 1..Len(n) : n[i] \notin SPECIAL_CHARS

\* the index a request for name n is to address: n when it starts with the
\* prefix, prefix + n otherwise
HasPrefix(n) ==
    /\ Len(n) >= Len(INDEX_NAME_PREFIX)
    /\ \A i \in 1..Len(INDEX_NAME_PREFIX) : n[i] = INDEX_NAME_PREFIX[i]
Target(n) == IF HasPrefix(n) THEN n ELSE INDEX_NAME_PREFIX \o n

\* positions in the call log `cs` of the calls to one of `apis`
Issued(cs, apis) == {i \in 1..Len(cs) : cs[i].api \in apis}

\* the engine's search call of the last request raised ConnectionTimeout
TimedOut == \E i \in Issued(calls, {"search"}) : calls[i].out = "timeout"

\* ------------------------------------------------------------------------
\* C1: whatever the operation, a name holding a character of SPECIAL_CHARS
\* gets a non-success envelope, no exists, create, delete, index, bulk or
\* search call is issued for it, and the engine is left as it was.
\* ------------------------------------------------------------------------
C1_InvalidNameRejected ==
    [][(req'.op \in Ops /\ ~ValidName(req'.index)) =>
          /\ result'.kind = "envelope"
          /\ result'.status # HTTP_200_OK
          /\ Issued(calls', {"indices.exists", "indices.create", "indices.delete",
                             "index", "bulk", "search"}) = {}
          /\ es' = es]_vars

C1_Witness ==
    /\ req.op = "bulk"
    /\ Len(req.index) = 2 /\ req.index[2] = "#"
    /\ result.kind = "envelope" /\ result.status = 405
    /\ Indices(es) # {}

\* ------------------------------------------------------------------------
\* C2: for a valid name n every call that addresses an index addresses n
\* itself when n starts with the prefix and prefix + n otherwise; that name
\* starts with the prefix and normalizing it again returns it unchanged.
\* ------------------------------------------------------------------------
C2_NormalizedTarget ==
    (req.op \in Ops /\ ValidName(req.index)) =>
        \A i \in 1..Len(calls) :
            calls[i].api # "cat.indices" =>
                /\ calls[i].index = Target(req.index)
                /\ HasPrefix(calls[i].index)
                /\ Normalize(calls[i].index) = calls[i].index

\* a bulk insert of an unprefixed name whose nested create (handed the
\* already normalized name) created prefix + name
C2_Witness ==
    /\ req.op = "bulk"
    /\ req.index = <<"a", "t">>
    /\ \E i \in Issued(calls, {"indices.create"}) :
          calls[i].index = <<"t", "a", "t">> /\ calls[i].out = "ok"
    /\ <<"t", "a", "t">> \in Indices(es)

\* ------------------------------------------------------------------------
\* C3: when the count of prefixed indices has reached MAX_IDX_LIM, create
\* returns the capacity envelope whatever the name, issues neither an exists
\* nor a create call, and the set of indices is unchanged.
\* ------------------------------------------------------------------------
C3_CreateRefusedAtCapacity ==
    [][(req'.op = "create" /\ no_of_tdp_idx(es) >= MAX_IDX_LIM) =>
          /\ result'.kind = "envelope"
          /\ result'.status = HTTP_406_NOT_ACCEPTABLE
          /\ Issued(calls', {"indices.exists", "indices.create"}) = {}
          /\ Indices(es') = Indices(es)]_vars

\* at capacity an invalid name gets the capacity envelope, not the 405 one
C3_Witness ==
    /\ req.op = "create"
    /\ ~ValidName(req.index)
    /\ no_of_tdp_idx(es) = MAX_IDX_LIM
    /\ result.kind = "envelope" /\ result.status = HTTP_406_NOT_ACCEPTABLE
    /\ Len(calls) = 1

\* ------------------------------------------------------------------------
\* C4: a request of one of `ops` for a valid name whose normalized index
\* does not exist gets 400 (delete, insert) or 404 (search), issues no
\* delete, index, bulk, create or search call, and leaves the engine as it
\* was.
\* ------------------------------------------------------------------------
MissingIndexRefused(ops) ==
    (/\ req'.op \in ops
     /\ ValidName(req'.index)
     /\ Target(req'.index) \notin Indices(es)) =>
        /\ result'.kind = "envelope"
        /\ result'.status = IF req'.op \in SearchOps THEN 404 ELSE 400
        /\ Issued(calls', {"indices.delete", "index", "bulk",
                           "indices.create", "search"}) = {}
        /\ Issued(calls', {"indices.exists"}) # {}
        /\ es' = es

\* C4 as stated: delete, both inserts and the seven searches
C4_Original ==
    [][MissingIndexRefused({"delete", "insert", "bulk"} \cup SearchOps)]_vars

\* C4 amended: delete, single insert and the seven searches (the bulk insert
\* goes on to its create step and its bulk write)
C4_MissingIndexRefused ==
    [][MissingIndexRefused({"delete", "insert"} \cup SearchOps)]_vars

C4_Witness ==
    /\ req.op = "insert"
    /\ ValidName(req.index)
    /\ Target(req.index) \notin Indices(es)
    /\ Indices(es) # {}
    /\ result.kind = "envelope" /\ result.status = 400
    /\ Len(calls) = 1 /\ calls[1].api = "indices.exists"

\* ------------------------------------------------------------------------
\* C5: a search whose engine call raises ConnectionTimeout returns the
\* envelope {"Request timed out", 408}, and a search returns status 408 in
\* no other case (not for no hits, a missing index or another failure).
\* ------------------------------------------------------------------------
C5_TimeoutEnvelope ==
    req.op \in SearchOps =>
        /\ TimedOut => result = Envelope("Request timed out", 408)
        /\ (result.kind = "envelope" /\ result.status = 408) => TimedOut

C5_Witness ==
    /\ req.op = "search_text"
    /\ TimedOut
    /\ result.kind = "envelope" /\ result.status = 408

\* ------------------------------------------------------------------------
\* C6: a projection search answered with a non-empty hit list returns a list
\* with one entry per hit, in the order of the hits: the value of the
\* requested field where the hit has it, the null placeholder where not.
\* ------------------------------------------------------------------------
C6_OneEntryPerHit ==
    (req.op \in FieldSearchOps /\ res # <<>>) =>
        /\ result.kind = "list"
        /\ Len(result.data) = Len(res)
        /\ \A i \in 1..Len(res) :
              result.data[i] = IF req.field \in DOMAIN res[i]._source
                               THEN res[i]._source[req.field]
                               ELSE None

\* two hits, the first without the requested field, the second with it
C6_Witness ==
    /\ req.op = "search_field_by_time_range"
    /\ Len(res) = 2
    /\ req.field \notin DOMAIN res[1]._source
    /\ req.field \in DOMAIN res[2]._source
    /\ result.kind = "list"
    /\ result.data = <<None, res[2]._source[req.field]>>

\* ------------------------------------------------------------------------
\* C7: create for a valid name below capacity.
\* ------------------------------------------------------------------------
CreateBelowCapacity ==
    /\ req'.op = "create"
    /\ no_of_tdp_idx(es) < MAX_IDX_LIM
    /\ ValidName(req'.index)

OneCreateCall ==
    /\ Cardinality(Issued(calls', {"indices.create"})) = 1
    /\ \A i \in Issued(calls', {"indices.create"}) :
          /\ calls'[i].index = Target(req'.index)
          /\ calls'[i].args.number_of_shards = "1"
          /\ calls'[i].args.number_of_replicas = 0

AlreadyExistsOutcome ==
    /\ Issued(calls', {"indices.create"}) = {}
    /\ Indices(es') = Indices(es)
    /\ result'.kind = "envelope"
    /\ result'.status = 208

\* C7 as stated: an absent index is created under prefix + given name with
\* the 200 envelope; an existing one is left alone with the 208 envelope
C7_Original ==
    [][CreateBelowCapacity =>
          IF Target(req'.index) \notin Indices(es)
          THEN /\ OneCreateCall
               /\ result'.kind = "envelope"
               /\ result'.status = 200
               /\ Indices(es') = Indices(es) \cup {INDEX_NAME_PREFIX \o req'.index}
          ELSE AlreadyExistsOutcome]_vars

\* C7 amended: for an absent index one create call is issued for the
\* normalized name with 1 shard and 0 replicas; when the engine accepts it
\* the 200 envelope is returned and the stored name is the normalized name
\* (prefix + given name when the given name lacks the prefix, the given name
\* itself when it has it); when the engine raises, the 404 failure envelope
\* is returned and the set of indices is unchanged.  An existing index is
\* left alone with the 208 envelope.
C7_CreateOutcomes ==
    [][CreateBelowCapacity =>
          IF Target(req'.index) \notin Indices(es)
          THEN /\ OneCreateCall
               /\ result'.kind = "envelope"
               /\ IF \E i \in Issued(calls', {"indices.create"}) : calls'[i].out = "ok"
                  THEN /\ result'.status = 200
                       /\ Indices(es') = Indices(es) \cup
                             {IF HasPrefix(req'.index)
                              THEN req'.index
                              ELSE INDEX_NAME_PREFIX \o req'.index}
                  ELSE /\ result'.status = 404
                       /\ Indices(es') = Indices(es)
          ELSE AlreadyExistsOutcome]_vars

\* "aa" created as "taa" beside an index that was there already
C7_Witness ==
    /\ req.op = "create"
    /\ req.index = <<"a", "a">>
    /\ result.kind = "envelope" /\ result.status = 200
    /\ Indices(es) = {<<"t">>, <<"t", "a", "a">>}

\* ------------------------------------------------------------------------
\* C8: whenever the bulk insert issues its bulk write, the normalized target
\* index exists in the engine at that moment.
\* ------------------------------------------------------------------------
C8_BulkTargetExists ==
    req.op = "bulk" =>
        \A i \in Issued(calls, {"bulk"}) : calls[i].present

\* ------------------------------------------------------------------------
\* C9: the status of every envelope returned is one of the enumeration.
\* ------------------------------------------------------------------------
\* C9 as stated: 200, 400, 404, 405, 408, 208
C9_Original ==
    result.kind = "envelope" => result.status \in {200, 400, 404, 405, 408, 208}

\* C9 amended: 200, 400, 404, 405, 408, 208 and not-acceptable (406), the
\* status of the capacity envelope
C9_StatusEnumeration ==
    result.kind = "envelope" => result.status \in {200, 400, 404, 405, 406, 408, 208}

C9_Witness ==
    /\ req.op = "create"
    /\ result.kind = "envelope" /\ result.status = 406

\* ------------------------------------------------------------------------
\* C10: the page size and the request timeout of the search calls.
\* ------------------------------------------------------------------------
\* C10 as stated: every search call of every one of the seven searches
\* passes size = RECORDS and request_timeout = REQUEST_TIMEOUT, and no more
\* than RECORDS hits come back
C10_Original ==
    req.op \in SearchOps =>
        /\ \A i \in Issued(calls, {"search"}) :
              /\ "size" \in DOMAIN calls[i].args
              /\ calls[i].args.size = RECORDS
              /\ calls[i].args.request_timeout = REQUEST_TIMEOUT
        /\ Len(res) <= RECORDS
        /\ result.kind = "list" => Len(result.data) <= RECORDS

\* C10 amended: every search call passes request_timeout = REQUEST_TIMEOUT;
\* the six list searches also pass size = RECORDS and return at most RECORDS
\* entries; the search by id passes no size and returns one document, never
\* a list
C10_PageSizeAndTimeout ==
    req.op \in SearchOps =>
        /\ \A i \in Issued(calls, {"search"}) :
              /\ calls[i].args.request_timeout = REQUEST_TIMEOUT
              /\ IF req.op \in ListSearchOps
                 THEN "size" \in DOMAIN calls[i].args /\ calls[i].args.size = RECORDS
                 ELSE "size" \notin DOMAIN calls[i].args
        /\ req.op \in ListSearchOps =>
              /\ Len(res) <= RECORDS
              /\ result.kind # "record"
              /\ result.kind = "list" => Len(result.data) <= RECORDS
        /\ req.op = "search_by_id" => result.kind # "list"

\* a list search that returned a full page
C10_Witness ==
    /\ req.op = "search_keyword"
    /\ result.kind = "list"
    /\ Len(result.data) = RECORDS
    /\ \E i \in Issued(calls, {"search"}) : calls[i].args.size = RECORDS

\* ------------------------------------------------------------------------
\* C11: when the engine call an operation delegates to (create, delete,
\* index, bulk, search) raises an exception other than a connection timeout,
\* the operation returns a failure envelope; the exception does not reach
\* the caller.
\* ------------------------------------------------------------------------
\* the engine call an operation delegates to
OwnApi(op) ==
    IF op = "create" THEN "indices.create"
    ELSE IF op = "delete" THEN "indices.delete"
    ELSE IF op = "insert" THEN "index"
    ELSE IF op = "bulk" THEN "bulk"
    ELSE "search"

C11_ExceptionReported ==
    (/\ req.op \in Ops
     /\ \E i \in Issued(calls, {OwnApi(req.op)}) : calls[i].out = "error") =>
        /\ result.kind = "envelope"
        /\ result.status # HTTP_200_OK

\* ------------------------------------------------------------------------
\* C12: in one invocation each of create, delete, index, bulk and search is
\* issued at most once, a call that times out or raises is the last engine
\* call of the invocation, and the invocation ends with one result.
\* ------------------------------------------------------------------------
C12_NoRetries ==
    req.op \in Ops =>
        /\ \A api \in {"indices.create", "indices.delete", "index", "bulk", "search"} :
              Cardinality(Issued(calls, {api})) <= 1
        /\ \A i \in 1..Len(calls) :
              calls[i].out \in {"error", "timeout"} => i = Len(calls)
        /\ result.kind # "none"

\* ------------------------------------------------------------------------
\* C13: over sequences of create, delete, single insert and search started
\* with at most MAX_IDX_LIM prefixed indices, the number of indices whose
\* name starts with the prefix never exceeds MAX_IDX_LIM, and an index that
\* create_a_single_index has created bears a name that starts with the
\* prefix and holds no character of SPECIAL_CHARS.
\* ------------------------------------------------------------------------
C13_CapacityInvariant ==
    /\ Cardinality({i \in Indices(es) : HasPrefix(i)}) <= MAX_IDX_LIM
    /\ req.op = "create" =>
          \A i \in Issued(calls, {"indices.create"}) :
              calls[i].out = "ok" =>
                  /\ calls[i].index \in Indices(es)
                  /\ HasPrefix(calls[i].index)
                  /\ ValidName(calls[i].index)

\* the create that fills the cluster up to the limit
C13_Witness ==
    /\ req.op = "create"
    /\ req.index = <<"a">>
    /\ result.kind = "envelope" /\ result.status = 200
    /\ <<"t", "a">> \in Indices(es)
    /\ Cardinality({i \in Indices(es) : HasPrefix(i)}) = MAX_IDX_LIM
====
